---- MODULE Spec2Model ----
(***************************************************************************)
(* A model of clog (src/logger.go): the configuration defaulting, the      *)
(* logger construction, the named-logger registry, the shared level        *)
(* control, derivation with bound fields, the leveled emission methods     *)
(* and the package-level facade over the process-wide default logger.      *)
(*                                                                         *)
(* Strings that the code inspects (level names) are sequences of           *)
(* one-character strings; names, formats and environments are only ever    *)
(* compared and stay TLA+ strings; a file path is a record of its          *)
(* directory components, its stem, the suffixes added to the stem and its  *)
(* extension.                                                              *)
(***************************************************************************)
EXTENDS Integers, Sequences, FiniteSets, TLC

\* ------------------------------------------------------------------ bounds
\* Loggers ever allocated (constructed or derived).
MaxLoggers == 3
\* Records ever written to files and console together.
MaxRecords == 1
\* Loggers constructed where the level gate of one logger is examined.
GateLoggers == 1
\* Loggers that may exist for one more to be constructed, where levels are
\* examined (derivation goes on to MaxLoggers).
LevelLoggers == 2
\* Loggers constructed where the package-level facade is examined.
FacadeLoggers == 2
\* Loggers constructed, or about to be, where goroutines race.
RaceLoggers == 3
\* Loggers constructed or derived, or about to be, where the registry grows.
GrowLoggers == 2
\* Loggers constructed, or about to be, where every call has to return.
LiveLoggers == 2

\* The nil pointer (logger handles are 1..Len(heap)).
Nil == 0

\* --------------------------------------------------------------- constants
\* Level names (logger.go:19-26), as character sequences.
DebugLevel == <<"d", "e", "b", "u", "g">>
InfoLevel == <<"i", "n", "f", "o">>
WarnLevel == <<"w", "a", "r", "n">>
ErrorLevel == <<"e", "r", "r", "o", "r">>
PanicLevel == <<"p", "a", "n", "i", "c">>
FatalLevel == <<"f", "a", "t", "a", "l">>

\* Output formats (logger.go:29-32).
\* The frames createZapLogger tells the engine to skip.
CallerSkip == 2

FormatJSON == "json"
FormatConsole == "console"

\* Environments (logger.go:35-39).
EnvDevelopment == "development"
EnvProduction == "production"
EnvTest == "test"

\* The levels of the logging engine that parseLevel returns
\* (zapcore.DebugLevel .. zapcore.FatalLevel, ordered debug < ... < fatal).
ZapDebugLevel == 0 - 1
ZapInfoLevel == 0
ZapWarnLevel == 1
ZapErrorLevel == 2
ZapPanicLevel == 4
ZapFatalLevel == 5

ZapLevels ==
  {ZapDebugLevel, ZapInfoLevel, ZapWarnLevel, ZapErrorLevel, ZapPanicLevel,
   ZapFatalLevel}

\* ------------------------------------------------------------------ strings
UpperChars ==
  <<"A", "B", "C", "D", "E", "F", "G", "H", "I", "J", "K", "L", "M",
    "N", "O", "P", "Q", "R", "S", "T", "U", "V", "W", "X", "Y", "Z">>

LowerChars ==
  <<"a", "b", "c", "d", "e", "f", "g", "h", "i", "j", "k", "l", "m",
    "n", "o", "p", "q", "r", "s", "t", "u", "v", "w", "x", "y", "z">>

\* strings.ToLower on one character.
LowerChar(c) ==
  IF \E i \in 1..Len(UpperChars) : UpperChars[i] = c
  THEN LowerChars[CHOOSE i \in 1..Len(UpperChars) : UpperChars[i] = c]
  ELSE c

\* strings.ToLower.
ToLower(s) == [i \in 1..Len(s) |-> LowerChar(s[i])]

\* A parseLevel that compares the string as it is written.
parseLevelNoFold(level) ==
  CASE level = DebugLevel -> ZapDebugLevel
    [] level = InfoLevel -> ZapInfoLevel
    [] level = WarnLevel -> ZapWarnLevel
    [] level = ErrorLevel -> ZapErrorLevel
    [] level = PanicLevel -> ZapPanicLevel
    [] level = FatalLevel -> ZapFatalLevel
    [] OTHER -> ZapInfoLevel

\* parseLevel: the level a level string resolves to.
parseLevel(level) ==
  LET l == ToLower(level) IN
  CASE l = DebugLevel -> ZapDebugLevel
    [] l = InfoLevel -> ZapInfoLevel
    [] l = WarnLevel -> ZapWarnLevel
    [] l = ErrorLevel -> ZapErrorLevel
    [] l = PanicLevel -> ZapPanicLevel
    [] l = FatalLevel -> ZapFatalLevel
    [] OTHER -> ZapInfoLevel

\* -------------------------------------------------------------------- paths
\* The empty file name "".
EmptyPath == [dir |-> <<>>, stem |-> "", sfx |-> <<>>, ext |-> ""]

\* "./logs/app.log", the Filename of DefaultConfig.
DefaultFilename ==
  [dir |-> <<".", "logs">>, stem |-> "app", sfx |-> <<>>, ext |-> ".log"]

\* filepath.Clean on directory components: "." components are dropped.
RECURSIVE Clean(_)
Clean(d) ==
  IF d = <<>> THEN <<>>
  ELSE IF Head(d) = "." THEN Clean(Tail(d))
  ELSE <<Head(d)>> \o Clean(Tail(d))

\* filepath.Dir: the cleaned directory of a path.
Dir(p) == Clean(p.dir)

\* filepath.Join(dir, name + ext): the cleaned path.
Join(d, stem, sfx, ext) ==
  [dir |-> Clean(d), stem |-> stem, sfx |-> sfx, ext |-> ext]

\* The file a path names: paths that clean to the same path name one file.
FileOf(p) == Join(p.dir, p.stem, p.sfx, p.ext)

\* ------------------------------------------------------------ configuration
\* Addresses of FileRotationConfig objects.  DefaultRot stands for an object
\* allocated by a call of DefaultConfig that the caller has not written to;
\* CallerRot is an object the caller owns and fills in.
DefaultRot == 1
CallerRot == 2
RotAddrs == {DefaultRot, CallerRot}

\* The rotation policy DefaultConfig allocates (logger.go:114-119).
DefaultRotation ==
  [MaxSize |-> 100, MaxAge |-> 7, MaxBackups |-> 10, Compress |-> FALSE]

\* The zero value of Config.
ZeroConfig ==
  [Level |-> <<>>, Format |-> "", Filename |-> EmptyPath, Name |-> "",
   ConsoleOutput |-> FALSE, EnableCaller |-> FALSE, EnableColor |-> FALSE,
   FileRotation |-> Nil, Environment |-> "",
   UseTimeStampFilename |-> FALSE, UsePidFilename |-> FALSE]

\* DefaultConfig, under the current environment env.
DefaultConfig(env) ==
  [Level |-> InfoLevel, Format |-> FormatConsole,
   Filename |-> DefaultFilename, Name |-> "default",
   ConsoleOutput |-> FALSE, EnableCaller |-> TRUE, EnableColor |-> TRUE,
   FileRotation |-> DefaultRot, Environment |-> env,
   UseTimeStampFilename |-> FALSE, UsePidFilename |-> FALSE]

\* fillDefaultConfig, the returned configuration: every field left at its
\* zero value takes the default.
fillDefaultConfig(config, env) ==
  LET defaultCfg == DefaultConfig(env) IN
  [config EXCEPT
     !.Level = IF config.Level = <<>> THEN defaultCfg.Level ELSE @,
     !.Format = IF config.Format = "" THEN defaultCfg.Format ELSE @,
     !.Filename = IF config.Filename = EmptyPath
                  THEN defaultCfg.Filename ELSE @,
     !.Name = IF config.Name = "" THEN defaultCfg.Name ELSE @,
     !.Environment = IF config.Environment = ""
                     THEN defaultCfg.Environment ELSE @,
     !.FileRotation = IF config.FileRotation = Nil
                      THEN defaultCfg.FileRotation ELSE @]

\* fillDefaultConfig, its writes through the FileRotation pointer: the
\* object the configuration points to has each non-positive number replaced.
fillDefaultRotation(mem, config) ==
  IF config.FileRotation = Nil THEN mem
  ELSE LET r == mem[config.FileRotation] IN
       [mem EXCEPT ![config.FileRotation] =
          [r EXCEPT
             !.MaxSize = IF r.MaxSize <= 0
                         THEN DefaultRotation.MaxSize ELSE @,
             !.MaxAge = IF r.MaxAge <= 0
                        THEN DefaultRotation.MaxAge ELSE @,
             !.MaxBackups = IF r.MaxBackups <= 0
                            THEN DefaultRotation.MaxBackups ELSE @]]

\* A getLogFilename that decorates the file name in every environment.
getLogFilenameAnyEnv(config, now, pid) ==
  IF ~config.UseTimeStampFilename /\ ~config.UsePidFilename
  THEN config.Filename
  ELSE LET stamped == IF config.UseTimeStampFilename
                      THEN config.Filename.sfx \o <<"_", now>>
                      ELSE config.Filename.sfx
           filename == IF config.UsePidFilename
                       THEN stamped \o <<"_pid", pid>>
                       ELSE stamped
       IN Join(Dir(config.Filename), config.Filename.stem, filename,
               config.Filename.ext)

\* getLogFilename: the path the rotating writer is bound to; now is
\* time.Now() formatted as "20060102_150405" and pid is os.Getpid().
getLogFilename(config, now, pid) ==
  IF config.Environment # EnvDevelopment
     \/ (~config.UseTimeStampFilename /\ ~config.UsePidFilename)
  THEN config.Filename
  ELSE LET stamped == IF config.UseTimeStampFilename
                      THEN config.Filename.sfx \o <<"_", now>>
                      ELSE config.Filename.sfx
           filename == IF config.UsePidFilename
                       THEN stamped \o <<"_pid", pid>>
                       ELSE stamped
       IN Join(Dir(config.Filename), config.Filename.stem, filename,
               config.Filename.ext)

\* Module's file name for a module: filepath.Join("./logs", name + ".log").
ModuleFilename(moduleName) ==
  Join(<<".", "logs">>, moduleName, <<>>, ".log")

\* ----------------------------------------------------------------- registry
\* loggers[name] = logger: the map after the assignment.
MapPut(m, k, v) == [x \in DOMAIN m \cup {k} |-> IF x = k THEN v ELSE m[x]]

\* A registerLogger that keeps the logger already stored under name.
registerLoggerKeepFirst(regs, logger, name) ==
  IF name # "" /\ name # "default" /\ name \notin DOMAIN regs
  THEN MapPut(regs, name, logger)
  ELSE regs

\* A registerLogger that forgets the other names.
registerLoggerAlone(regs, logger, name) ==
  IF name # "" /\ name # "default" THEN [x \in {name} |-> logger] ELSE regs

\* A registerLogger that stores nothing.
registerLoggerNever(regs, logger, name) == regs

\* registerLogger: the registry after registering logger under name.
registerLogger(regs, logger, name) ==
  IF name # "" /\ name # "default" THEN MapPut(regs, name, logger) ELSE regs

\* -------------------------------------------------------------------- state
VARIABLES
  currentEnv,     \* the global default environment
  defaultLogger,  \* the process-wide default logger, or Nil
  loggers,        \* the registry: name -> logger handle
  heap,           \* the Logger objects ever allocated; a handle is an index
  levels,         \* the atomic level controls; heap[l].atomicLevel indexes it
  rotMem,         \* the FileRotationConfig objects, by address
  dirs,           \* the directories that exist
  files,          \* file -> the records written to it, oldest first
  console,        \* the records written to standard output
  proc,           \* "running", "panicked" (unwinding) or "exited"
  origin,         \* history: origin[l] is the constructed logger l derives from
  requested,      \* history: requested[origin[l]] is the level string last
                  \* asked for in l's family (at construction or by SetLevel)
  last,           \* history: the last call made and what it returned
  thr,            \* the goroutines: where each is in the call it is making
  loggersMu,      \* the reader/writer lock of the registry
  writes          \* history: the registry writes the goroutines made, in order

vars ==
  <<currentEnv, defaultLogger, loggers, heap, levels, rotMem, dirs, files,
    console, proc, origin, requested, last, thr, loggersMu, writes>>

\* The variables of the goroutines; a call made as one step leaves them
\* alone.
concVars == <<thr, loggersMu, writes>>

\* The goroutines of the application.
Threads == {1, 2}

\* A goroutine that has made no call yet: pc says where it is, op and name
\* what it called, built the logger it has constructed in this call and
\* ret the logger its last call returned.
NoThread ==
  [pc |-> "idle", op |-> "none", name |-> "", built |-> Nil, ret |-> Nil]

\* The process id, os.Getpid().
Pid == 4242

\* The handles of the loggers allocated so far.
Handles == 1..Len(heap)

\* The level a logger is at: the value of its atomic level control.
EffLevel(l) == levels[heap[l].atomicLevel]

\* The file a logger's rotating writer appends to.
LogFile(l) == FileOf(heap[l].rotator.Filename)

\* The records in a file (none when the file does not exist yet).
Content(fs, f) == IF f \in DOMAIN fs THEN fs[f] ELSE <<>>

RECURSIVE SumLen(_, _)
SumLen(fs, ks) ==
  IF ks = {} THEN 0
  ELSE LET k == CHOOSE x \in ks : TRUE
       IN Len(fs[k]) + SumLen(fs, ks \ {k})

\* The number of records written so far.
Written == Len(console) + SumLen(files, DOMAIN files)

\* The call history before any call; a call overrides the fields it has:
\* op the function called, name the logger name passed,
\* ncfg the number of configurations passed (Module takes a variadic
\* config ...Config), ret the logger returned, err whether an error was
\* returned (for Module, which returns none: whether construction failed),
\* built whether the call constructed a logger, flushed the flushes the
\* call attempted, in order, each with the logger and whether it failed,
\* cfg the configurations passed.
NoCall ==
  [op |-> "none", name |-> "", ncfg |-> 0, ret |-> Nil,
   err |-> FALSE, built |-> FALSE, flushed |-> <<>>, cfg |-> <<>>,
   caller |-> <<>>]

\* ------------------------------------------------------------- construction
\* createEncoderConfig: the level encoding of the shared encoder
\* configuration.
createEncoderConfig(config) ==
  [EncodeLevel |->
     IF config.Format = FormatConsole
     THEN IF config.EnableColor THEN "CapitalColor" ELSE "Capital"
     ELSE "Lowercase"]

\* A file encoder configuration that is the shared one as it stands.
fileEncoderConfigShared(config) == createEncoderConfig(config)

\* The encoder configuration NewLogger derives for the file destination.
fileEncoderConfig(config) ==
  IF config.Format = FormatConsole
  THEN [createEncoderConfig(config) EXCEPT !.EncodeLevel = "Capital"]
  ELSE createEncoderConfig(config)

\* createEncoder: a JSON encoder for the json format, a console encoder for
\* every other one.
createEncoder(config, encoderConfig) ==
  [kind |-> IF config.Format = FormatJSON THEN "json" ELSE "console",
   EncodeLevel |-> encoderConfig.EncodeLevel]

\* NewLogger: what a call with configuration config yields.  mk says whether
\* os.MkdirAll can create a missing log directory; now is the formatted
\* current time.
NewLoggerOut(config, mk, now) ==
  LET c == fillDefaultConfig(config, currentEnv)
      mem == fillDefaultRotation(rotMem, config)
      finalFilename == getLogFilename(c, now, Pid)
      dir == Dir(finalFilename)
      ok == dir \in dirs \/ mk
      id == Len(heap) + 1
      ctl == Len(levels) + 1
      logger ==
        [name |-> c.Name, fields |-> <<>>, atomicLevel |-> ctl, config |-> c,
         fileEncoder |-> createEncoder(c, fileEncoderConfig(c)),
         consoleEncoder |->
           IF c.ConsoleOutput
           THEN <<createEncoder(c, createEncoderConfig(c))>>
           ELSE <<>>,
         rotator |-> [Filename |-> finalFilename,
                      MaxSize |-> mem[c.FileRotation].MaxSize,
                      MaxBackups |-> mem[c.FileRotation].MaxBackups,
                      MaxAge |-> mem[c.FileRotation].MaxAge,
                      Compress |-> mem[c.FileRotation].Compress]]
  IN IF ok
     THEN [err |-> FALSE, id |-> id, heap |-> Append(heap, logger),
           levels |-> Append(levels, parseLevel(c.Level)),
           loggers |-> registerLogger(loggers, id, c.Name),
           dirs |-> dirs \cup {dir}, rotMem |-> mem,
           origin |-> Append(origin, id),
           requested |-> Append(requested, c.Level)]
     ELSE [err |-> TRUE, id |-> Nil, heap |-> heap, levels |-> levels,
           loggers |-> loggers, dirs |-> dirs, rotMem |-> mem,
           origin |-> origin, requested |-> requested]

\* ----------------------------------------------------------------- emission
\* A level gate that also holds back the records at the logger's level.
EnabledAbove(l, lvl) == lvl > EffLevel(l)

\* Whether the core of logger l lets a record of level lvl through.
Enabled(l, lvl) == lvl >= EffLevel(l)

\* The record logger l writes for an emission with call fields fs.
Record(l, lvl, fs) ==
  [level |-> lvl, logger |-> heap[l].name, fields |-> heap[l].fields \o fs]

\* The files after logger l emits at lvl with fields fs.
EmitFiles(l, lvl, fs) ==
  IF l # Nil /\ Enabled(l, lvl)
  THEN MapPut(files, LogFile(l),
              Append(Content(files, LogFile(l)), Record(l, lvl, fs)))
  ELSE files

\* The console after logger l emits at lvl with fields fs.
EmitConsole(l, lvl, fs) ==
  IF l # Nil /\ Enabled(l, lvl) /\ heap[l].config.ConsoleOutput
  THEN Append(console, Record(l, lvl, fs))
  ELSE console

\* The frames of the goroutine that calls the facade, outermost first: the
\* last one is the application code making the call.
AppStack == <<"runtime.goexit", "runtime.main", "main.main">>

\* The frames below the engine when an instance method is called.
MethodStack == Append(AppStack, "clog.(*Logger).Info")

\* The frames below the engine when a package-level function is called: the
\* function calls the instance method of the default logger.
FunctionStack == AppStack \o <<"clog.Info", "clog.(*Logger).Info">>

\* The call site the engine attaches to a record of logger l emitted with
\* the frames stack below it: none when capture is off or the record is
\* held back, else the frame the configured number of frames below the
\* engine's immediate caller.
zapCaller(l, lvl, stack) ==
  IF l # Nil /\ Enabled(l, lvl) /\ heap[l].config.EnableCaller
     /\ Len(stack) > CallerSkip
  THEN <<stack[Len(stack) - CallerSkip]>>
  ELSE <<>>

\* The process after logger l emits at lvl: a panic-level call panics and a
\* fatal-level call exits, whether or not the record passed the level gate;
\* a method called on a nil logger dereferences nil and panics.
EmitProc(l, lvl) ==
  IF l = Nil \/ lvl = ZapPanicLevel THEN "panicked"
  ELSE IF lvl = ZapFatalLevel THEN "exited"
  ELSE proc

\* --------------------------------------------------------------- operations
\* An Init that keeps the registry entry "default" once there is one.
InitOutKeepEntry(config, mk, now) ==
  LET o == NewLoggerOut(config, mk, now) IN
  IF o.err
  THEN o @@ [defaultLogger |-> defaultLogger]
  ELSE [o EXCEPT !.loggers = IF "default" \in DOMAIN o.loggers THEN o.loggers
                             ELSE MapPut(o.loggers, "default", o.id)]
       @@ [defaultLogger |-> o.id]

\* An Init that stores what NewLogger returned before looking at the error.
InitOutUnchecked(config, mk, now) ==
  LET o == NewLoggerOut(config, mk, now) IN
  [o EXCEPT !.loggers = MapPut(o.loggers, "default", o.id)]
  @@ [defaultLogger |-> o.id]

\* Init: what a call yields; the new logger becomes the default logger and
\* the registry entry "default" unless construction failed.
InitOut(config, mk, now) ==
  LET o == NewLoggerOut(config, mk, now) IN
  IF o.err
  THEN o @@ [defaultLogger |-> defaultLogger]
  ELSE [o EXCEPT !.loggers = MapPut(o.loggers, "default", o.id)]
       @@ [defaultLogger |-> o.id]

\* A GetLogger without the fallback to the default logger.
GetLoggerOutNoFallback(name) ==
  IF name \in DOMAIN loggers THEN loggers[name] ELSE Nil

\* GetLogger: the logger returned for name.
GetLoggerOut(name) ==
  IF name \in DOMAIN loggers THEN loggers[name] ELSE defaultLogger

\* A Module that keeps the caller's file name only when it is not empty.
ModuleConfigEmptyOnly(moduleName, config) ==
  LET c0 == IF Len(config) > 0 THEN config[1] ELSE DefaultConfig(currentEnv)
      c1 == [c0 EXCEPT !.Name = moduleName]
  IN IF c1.Filename = EmptyPath
     THEN [c1 EXCEPT !.Filename = ModuleFilename(moduleName)]
     ELSE c1

\* The configuration Module constructs a logger from: the first one passed,
\* or DefaultConfig when none is, with the module's name and file name.
ModuleConfig(moduleName, config) ==
  LET c0 == IF Len(config) > 0 THEN config[1] ELSE DefaultConfig(currentEnv)
      c1 == [c0 EXCEPT !.Name = moduleName]
  IN IF c1.Filename = EmptyPath
        \/ c1.Filename = DefaultConfig(currentEnv).Filename
     THEN [c1 EXCEPT !.Filename = ModuleFilename(moduleName)]
     ELSE c1

\* The fields of the record Module logs when construction fails:
\* String("module", moduleName) and Err(err).
ModuleFailureFields == <<"module", "error">>

\* A fallback that returns the logger NewLogger returned with the error.
ModuleFallbackNil(o) ==
  [ret |-> o.id, files |-> files, console |-> console]

\* Module, when construction failed with outcome o: the failure is logged
\* at error level through the default logger, if there is one, and the
\* default logger is returned.
ModuleFallback(o) ==
  [ret |-> defaultLogger,
   files |-> IF defaultLogger # Nil
             THEN EmitFiles(defaultLogger, ZapErrorLevel, ModuleFailureFields)
             ELSE files,
   console |-> IF defaultLogger # Nil
               THEN EmitConsole(defaultLogger, ZapErrorLevel,
                                ModuleFailureFields)
               ELSE console]

\* Module, after NewLogger returned the outcome o: the new logger, or the
\* fallback when construction failed.
ModuleConstructed(o) ==
  IF o.err
  THEN [found |-> FALSE, err |-> TRUE, ret |-> ModuleFallback(o).ret,
        heap |-> o.heap, levels |-> o.levels, loggers |-> o.loggers,
        dirs |-> o.dirs, rotMem |-> o.rotMem, origin |-> o.origin,
        requested |-> o.requested,
        files |-> ModuleFallback(o).files,
        console |-> ModuleFallback(o).console]
  ELSE [found |-> FALSE, err |-> FALSE, ret |-> o.id,
        heap |-> o.heap, levels |-> o.levels, loggers |-> o.loggers,
        dirs |-> o.dirs, rotMem |-> o.rotMem, origin |-> o.origin,
        requested |-> o.requested, files |-> files,
        console |-> console]

\* A Module that constructs a logger whether or not the name is registered.
ModuleOutRebuild(moduleName, config, mk, now) ==
  ModuleConstructed(NewLoggerOut(ModuleConfig(moduleName, config), mk, now))

\* Module: what a call yields.  found says whether the registry was read
\* and had the name; otherwise a logger is constructed, and a failure is
\* logged through the default logger, which is returned.
ModuleOut(moduleName, config, mk, now) ==
  IF moduleName \in DOMAIN loggers
  THEN [found |-> TRUE, err |-> FALSE, ret |-> loggers[moduleName],
        heap |-> heap, levels |-> levels, loggers |-> loggers,
        dirs |-> dirs, rotMem |-> rotMem, origin |-> origin,
        requested |-> requested, files |-> files, console |-> console]
  ELSE ModuleConstructed(
         NewLoggerOut(ModuleConfig(moduleName, config), mk, now))

\* A SetLevel that stores the level only when it is more verbose.
SetLevelOutLowerOnly(l, level) ==
  [levels EXCEPT ![heap[l].atomicLevel] =
     IF parseLevel(level) < @ THEN parseLevel(level) ELSE @]

\* A SetLevel that writes one process-wide level.
SetLevelOutGlobal(l, level) == [i \in DOMAIN levels |-> parseLevel(level)]

\* SetLevel: the level controls after logger l is set to a level string.
SetLevelOut(l, level) ==
  [levels EXCEPT ![heap[l].atomicLevel] = parseLevel(level)]

\* A With that gives the child a level control of its own, holding a copy
\* of the parent's level.
WithOutCopiedLevel(l, fs) ==
  [ret |-> Len(heap) + 1,
   heap |-> Append(heap, [heap[l] EXCEPT !.fields = @ \o fs,
                                         !.atomicLevel = Len(levels) + 1]),
   levels |-> Append(levels, EffLevel(l))]

\* A With that appends the fields to the parent's own list, which the child
\* then shares.
WithOutInPlace(l, fs) ==
  [ret |-> Len(heap) + 1,
   heap |-> Append([heap EXCEPT ![l].fields = @ \o fs],
                   [heap[l] EXCEPT !.fields = @ \o fs]),
   levels |-> levels]

\* With: what deriving from logger l with fields fs yields: a new Logger
\* with the fields bound after the parent's, on the parent's level control
\* and rotator.
WithOut(l, fs) ==
  [ret |-> Len(heap) + 1,
   heap |-> Append(heap, [heap[l] EXCEPT !.fields = @ \o fs]),
   levels |-> levels]

\* A facade without the nil check.
DefaultIsSetUnchecked == TRUE

\* Whether Init has set the default logger: the nil check of every
\* package-level function.
DefaultIsSet == defaultLogger # Nil

\* ------------------------------------------------------------------- inputs
\* The orders in which a map with the keys of m can be iterated.
Orders(m) ==
  {q \in [1..Cardinality(m) -> m] : \A i, j \in DOMAIN q : q[i] = q[j] => i = j}

\* The names callers pass to Module and GetLogger.
Names == {"", "default", "user"}

\* The six level names.
LevelNames ==
  {DebugLevel, InfoLevel, WarnLevel, ErrorLevel, PanicLevel, FatalLevel}

\* Level strings callers pass to SetLevel and SetDefaultLevel: a level name
\* and a mixed-case spelling of another.
LevelStrings == {DebugLevel, <<"E", "r", "r", "o", "r">>}

\* The levels of the debug and error emission methods.
SomeLevels == {ZapDebugLevel, ZapErrorLevel}

\* The formatted current time.
Now == "20060102_150405"

\* A named debug logger with its own file and console output.
UserConfig ==
  [ZeroConfig EXCEPT
     !.Level = DebugLevel, !.Name = "user", !.ConsoleOutput = TRUE,
     !.Filename = [dir |-> <<"tmp">>, stem |-> "user", sfx |-> <<>>,
                   ext |-> ".log"]]


\* The configurations of a logger without console output at each level.
LevelConfigs == {[ZeroConfig EXCEPT !.Level = s] : s \in LevelNames}

\* The call fields of the structured emissions that probe the level gate.
GateFields == {<<"a">>, <<"a", "b">>}

\* The upper-case letter of a lower-case one.
UpperChar(c) ==
  IF \E i \in 1..Len(LowerChars) : LowerChars[i] = c
  THEN UpperChars[CHOOSE i \in 1..Len(LowerChars) : LowerChars[i] = c]
  ELSE c

\* The level strings callers write: each level name in lower case, in upper
\* case and capitalized, and strings that name no level.
LevelSpellings ==
  LevelNames
  \cup {[i \in DOMAIN s |-> UpperChar(s[i])] : s \in LevelNames}
  \cup {[i \in DOMAIN s |-> IF i = 1 THEN UpperChar(s[i]) ELSE s[i]] :
          s \in LevelNames}
  \cup {<<>>, <<"i", "n", "f">>, <<"t", "r", "a", "c", "e">>,
         <<"w", "a", "r", "n", "i", "n", "g">>}

\* A log file of the caller's own.
UserFilename ==
  [dir |-> <<"tmp">>, stem |-> "user", sfx |-> <<>>, ext |-> ".log"]

\* The configurations that leave each defaulted field at its zero value or
\* set it, with each flag of the outputs off or on.
ConfigInputs ==
  {[ZeroConfig EXCEPT
      !.Level = lv, !.Format = fm, !.Filename = fn, !.Name = nm,
      !.Environment = ev, !.ConsoleOutput = out, !.EnableCaller = ca,
      !.EnableColor = co, !.FileRotation = ro] :
     lv \in {<<>>, DebugLevel}, fm \in {"", FormatJSON},
     fn \in {EmptyPath, UserFilename}, nm \in {"", "user"},
     ev \in {"", EnvProduction}, out \in BOOLEAN, ca \in BOOLEAN,
     co \in BOOLEAN, ro \in {Nil, CallerRot}}

\* The rotation policies a caller fills in: negative, zero and positive
\* numbers.
RotationInputs ==
  {[MaxSize |-> sz, MaxAge |-> ag, MaxBackups |-> bk, Compress |-> cp] :
     sz \in {0 - 1, 5}, ag \in {0, 3}, bk \in {0, 4}, cp \in BOOLEAN}

\* "logs/app.log": the default log file, written without the leading "./".
PlainDefaultFilename ==
  [dir |-> <<"logs">>, stem |-> "app", sfx |-> <<>>, ext |-> ".log"]

\* The configurations that differ in what decides the log file: the file
\* name, the environment, the two decoration flags and the name.
PathConfigs ==
  {[ZeroConfig EXCEPT
      !.Filename = fn, !.Environment = ev, !.UseTimeStampFilename = ts,
      !.UsePidFilename = pd, !.Name = nm] :
     fn \in {EmptyPath, DefaultFilename, PlainDefaultFilename, UserFilename},
     ev \in {"", EnvDevelopment, EnvProduction, EnvTest},
     ts \in BOOLEAN, pd \in BOOLEAN, nm \in {"", "user"}}

\* The configurations that differ in what decides the encoders and the
\* call-site capture.
OutputConfigs ==
  {[UserConfig EXCEPT
      !.Format = fm, !.EnableColor = co, !.ConsoleOutput = out,
      !.EnableCaller = ca] :
     fm \in {"", FormatJSON, FormatConsole, "text"}, co \in BOOLEAN,
     out \in BOOLEAN, ca \in BOOLEAN}

\* A configuration that names its logger "default".
NamedDefaultConfig == [UserConfig EXCEPT !.Name = "default"]

\* A logger with a file of its own that only lets fatal records through.
QuietConfig ==
  [ZeroConfig EXCEPT
     !.Level = <<"F", "A", "T", "A", "L">>,
     !.Filename = [dir |-> <<"var">>, stem |-> "quiet", sfx |-> <<>>,
                   ext |-> ".log"]]

\* ------------------------------------------------------------------ actions
Running == proc = "running"

\* The variables that only construction writes.
constructionVars == <<heap, levels, rotMem, dirs, origin, requested>>

\* clog.Init(config)
ClogInit(config, mk, now) ==
  \E o \in {InitOut(config, mk, now)} :
  /\ Running
  /\ ~o.err => Len(heap) < MaxLoggers
  /\ defaultLogger' = o.defaultLogger
  /\ loggers' = o.loggers
  /\ heap' = o.heap
  /\ levels' = o.levels
  /\ rotMem' = o.rotMem
  /\ dirs' = o.dirs
  /\ origin' = o.origin
  /\ requested' = o.requested
  /\ UNCHANGED concVars
  /\ last' = [NoCall EXCEPT !.op = "Init", !.ncfg = 1, !.err = o.err,
                            !.built = ~o.err, !.cfg = <<config>>]
  /\ UNCHANGED <<currentEnv, files, console, proc>>

\* Everything but the call history.
progVars ==
  <<currentEnv, defaultLogger, loggers, heap, levels, rotMem, dirs, files,
    console, proc, origin, requested>>

\* clog.SetEnvironment(env)
SetEnvironment(env) ==
  /\ Running
  /\ currentEnv' = env
  /\ UNCHANGED concVars
  /\ last' = [NoCall EXCEPT !.op = "SetEnvironment"]
  /\ UNCHANGED <<defaultLogger, loggers, files, console, proc>>
  /\ UNCHANGED constructionVars

\* clog.DefaultConfig(): the call history holds the configuration returned.
GetDefaultConfig ==
  /\ Running
  /\ UNCHANGED concVars
  /\ last' = [NoCall EXCEPT !.op = "DefaultConfig",
                            !.cfg = <<DefaultConfig(currentEnv)>>]
  /\ UNCHANGED progVars

\* clog.NewLogger(config)
NewLogger(config, mk, now) ==
  \E o \in {NewLoggerOut(config, mk, now)} :
  /\ Running
  /\ ~o.err => Len(heap) < MaxLoggers
  /\ loggers' = o.loggers
  /\ heap' = o.heap
  /\ levels' = o.levels
  /\ rotMem' = o.rotMem
  /\ dirs' = o.dirs
  /\ origin' = o.origin
  /\ requested' = o.requested
  /\ UNCHANGED concVars
  /\ last' = [NoCall EXCEPT !.op = "NewLogger", !.ncfg = 1,
                            !.ret = o.id, !.err = o.err,
                            !.built = ~o.err, !.cfg = <<config>>]
  /\ UNCHANGED <<currentEnv, defaultLogger, files, console, proc>>

\* clog.GetLogger(name)
GetLogger(name) ==
  /\ Running
  /\ UNCHANGED concVars
  /\ last' = [NoCall EXCEPT !.op = "GetLogger", !.name = name,
                            !.ret = GetLoggerOut(name)]
  /\ UNCHANGED <<currentEnv, defaultLogger, loggers, files, console, proc>>
  /\ UNCHANGED constructionVars

\* clog.Module(moduleName, config...)
Module(moduleName, config, mk, now) ==
  \E o \in {ModuleOut(moduleName, config, mk, now)} :
  /\ Running
  /\ Len(o.heap) <= MaxLoggers
  /\ (o.err /\ defaultLogger # Nil) => Written < MaxRecords
  /\ loggers' = o.loggers
  /\ heap' = o.heap
  /\ levels' = o.levels
  /\ rotMem' = o.rotMem
  /\ dirs' = o.dirs
  /\ origin' = o.origin
  /\ requested' = o.requested
  /\ files' = o.files
  /\ console' = o.console
  /\ UNCHANGED concVars
  /\ last' = [NoCall EXCEPT !.op = "Module", !.name = moduleName,
                            !.ncfg = Len(config), !.ret = o.ret,
                            !.err = o.err,
                            !.built = ~o.found /\ ~o.err,
                            !.cfg = config]
  /\ UNCHANGED <<currentEnv, defaultLogger, proc>>

\* A method called on a nil *Logger dereferences nil: the call panics.
NilDeref ==
  /\ proc' = "panicked"
  /\ UNCHANGED <<currentEnv, defaultLogger, loggers, files, console>>
  /\ UNCHANGED constructionVars

\* The effect of l.SetLevel(level).
SetLevelStep(l, level) ==
  IF l = Nil THEN NilDeref
  ELSE /\ levels' = SetLevelOut(l, level)
       /\ requested' = [requested EXCEPT ![origin[l]] = level]
       /\ UNCHANGED <<currentEnv, defaultLogger, loggers, heap, rotMem, dirs,
                      origin, files, console, proc>>

\* The effect of l.With(fs...).
WithStep(l, fs) ==
  IF l = Nil THEN NilDeref
  ELSE LET o == WithOut(l, fs) IN
       /\ Len(heap) < MaxLoggers
       /\ heap' = o.heap
       /\ levels' = o.levels
       /\ origin' = Append(origin, origin[l])
       /\ requested' = Append(requested, <<>>)
       /\ UNCHANGED <<currentEnv, defaultLogger, loggers, rotMem, dirs,
                      files, console, proc>>

\* The logger l.With(fs...) returns.
WithRet(l, fs) == IF l = Nil THEN Nil ELSE WithOut(l, fs).ret

\* The effect of an emission on l at lvl with call fields fs.
EmitStep(l, lvl, fs) ==
  /\ Written < MaxRecords
  /\ files' = EmitFiles(l, lvl, fs)
  /\ console' = EmitConsole(l, lvl, fs)
  /\ proc' = EmitProc(l, lvl)
  /\ UNCHANGED <<currentEnv, defaultLogger, loggers>>
  /\ UNCHANGED constructionVars

\* The effect of l.Sync(): the engine's flush writes nothing new.
SyncStep(l) == IF l = Nil THEN NilDeref ELSE UNCHANGED progVars

\* The levels of the six emission methods.
EmitLevels == ZapLevels

\* l.SetLevel(level)
SetLevel(l, level) ==
  /\ Running
  /\ SetLevelStep(l, level)
  /\ UNCHANGED concVars
  /\ last' = [NoCall EXCEPT !.op = "SetLevel"]

\* l.With(fs...)
With(l, fs) ==
  /\ Running
  /\ WithStep(l, fs)
  /\ UNCHANGED concVars
  /\ last' = [NoCall EXCEPT !.op = "With", !.ret = WithRet(l, fs)]

\* l.WithFields(m): the map is iterated in some order q and passed to With.
WithFields(l, q) ==
  /\ Running
  /\ WithStep(l, q)
  /\ UNCHANGED concVars
  /\ last' = [NoCall EXCEPT !.op = "WithFields", !.ret = WithRet(l, q)]

\* l.Debug / Info / Warn / Error / Panic / Fatal (msg, fs...)
Emit(l, lvl, fs) ==
  /\ Running
  /\ EmitStep(l, lvl, fs)
  /\ UNCHANGED concVars
  /\ last' = [NoCall EXCEPT
                !.op = "Emit", !.caller = zapCaller(l, lvl, MethodStack)]

\* l.Debugf / Infof / Warnf / Errorf / Panicf / Fatalf (format, args...):
\* the formatted message carries no fields of its own.
Emitf(l, lvl) ==
  /\ Running
  /\ EmitStep(l, lvl, <<>>)
  /\ UNCHANGED concVars
  /\ last' = [NoCall EXCEPT
                !.op = "Emitf", !.caller = zapCaller(l, lvl, MethodStack)]

\* l.Sync(): the flush of the engine succeeds or fails.
Sync(l, failed) ==
  /\ Running
  /\ SyncStep(l)
  /\ UNCHANGED concVars
  /\ last' = [NoCall EXCEPT
                !.op = "Sync", !.err = l # Nil /\ failed,
                !.flushed = IF l = Nil THEN <<>>
                            ELSE <<[logger |-> l, err |-> failed]>>]

\* clog.SetDefaultLevel(level)
SetDefaultLevel(level) ==
  /\ Running
  /\ IF DefaultIsSet THEN SetLevelStep(defaultLogger, level)
     ELSE UNCHANGED progVars
  /\ UNCHANGED concVars
  /\ last' = [NoCall EXCEPT !.op = "SetDefaultLevel"]

\* clog.Debug / Info / Warn / Error / Panic / Fatal (msg, fs...)
PkgEmit(lvl, fs) ==
  /\ Running
  /\ IF DefaultIsSet THEN EmitStep(defaultLogger, lvl, fs)
     ELSE UNCHANGED progVars
  /\ UNCHANGED concVars
  /\ last' = [NoCall EXCEPT
                !.op = "PkgEmit",
                !.caller = IF DefaultIsSet
                           THEN zapCaller(defaultLogger, lvl, FunctionStack)
                           ELSE <<>>]

\* clog.Debugf / Infof / Warnf / Errorf / Panicf / Fatalf (format, args...)
PkgEmitf(lvl) ==
  /\ Running
  /\ IF DefaultIsSet THEN EmitStep(defaultLogger, lvl, <<>>)
     ELSE UNCHANGED progVars
  /\ UNCHANGED concVars
  /\ last' = [NoCall EXCEPT
                !.op = "PkgEmitf",
                !.caller = IF DefaultIsSet
                           THEN zapCaller(defaultLogger, lvl, FunctionStack)
                           ELSE <<>>]

\* clog.With(fs...)
PkgWith(fs) ==
  /\ Running
  /\ IF DefaultIsSet THEN WithStep(defaultLogger, fs)
     ELSE UNCHANGED progVars
  /\ UNCHANGED concVars
  /\ last' = [NoCall EXCEPT
                !.op = "PkgWith",
                !.ret = IF DefaultIsSet THEN WithRet(defaultLogger, fs)
                        ELSE Nil]

\* clog.WithFields(m), the map iterated in the order q
PkgWithFields(q) ==
  /\ Running
  /\ IF DefaultIsSet THEN WithStep(defaultLogger, q)
     ELSE UNCHANGED progVars
  /\ UNCHANGED concVars
  /\ last' = [NoCall EXCEPT
                !.op = "PkgWithFields",
                !.ret = IF DefaultIsSet THEN WithRet(defaultLogger, q)
                        ELSE Nil]

\* clog.Sync(): nil when there is no default logger, else its flush result
PkgSync(failed) ==
  /\ Running
  /\ IF DefaultIsSet THEN SyncStep(defaultLogger) ELSE UNCHANGED progVars
  /\ UNCHANGED concVars
  /\ last' = [NoCall EXCEPT
                !.op = "PkgSync",
                !.err = DefaultIsSet /\ defaultLogger # Nil /\ failed,
                !.flushed = IF DefaultIsSet /\ defaultLogger # Nil
                            THEN <<[logger |-> defaultLogger, err |-> failed]>>
                            ELSE <<>>]

\* A SyncAll that gives up at the first flush that fails.
SyncAllOutStopAtError(q, fails) ==
  LET n == IF \E i \in DOMAIN q : fails[i]
           THEN CHOOSE i \in DOMAIN q :
                  fails[i] /\ \A j \in 1..(i - 1) : ~fails[j]
           ELSE Len(q)
  IN [i \in 1..n |-> [logger |-> loggers[q[i]], err |-> fails[i]]]

\* SyncAll: the flushes made when the registry is iterated in the order q
\* of its names and the i-th flush fails when fails[i].
SyncAllOut(q, fails) ==
  [i \in 1..Len(q) |-> [logger |-> loggers[q[i]], err |-> fails[i]]]

\* clog.SyncAll(): every flush error is discarded
SyncAll(q, fails) ==
  /\ Running
  /\ UNCHANGED concVars
  /\ last' = [NoCall EXCEPT !.op = "SyncAll",
                            !.flushed = SyncAllOut(q, fails)]
  /\ UNCHANGED progVars

\* The caller recovers from the panic of a panic-level emission.
Recover ==
  /\ proc = "panicked"
  /\ proc' = "running"
  /\ UNCHANGED concVars
  /\ last' = [NoCall EXCEPT !.op = "recover"]
  /\ UNCHANGED <<currentEnv, defaultLogger, loggers, files, console>>
  /\ UNCHANGED constructionVars

\* --------------------------------------------------------------- goroutines
\* sync.RWMutex: a reader gets in unless a writer holds the lock.
CanRLock(mu) == mu.writer = Nil

RLock(mu, t) == [mu EXCEPT !.readers = @ \cup {t}]

\* A read lock that is never given back.
RUnlockKept(mu, t) == mu

RUnlock(mu, t) == [mu EXCEPT !.readers = @ \ {t}]

\* A lock that lets a writer in among the readers.
CanLockAmongReaders(mu) == mu.writer = Nil

\* sync.RWMutex: a writer gets in when nobody holds the lock.
CanLock(mu) == mu.writer = Nil /\ mu.readers = {}

Lock(mu, t) == [mu EXCEPT !.writer = t]

Unlock(mu, t) == [mu EXCEPT !.writer = Nil]

\* Whether registerLogger takes the lock for name.
registerLoggerLocks(name) == name # "" /\ name # "default"

\* The goroutines that may still construct a logger in the Module call they
\* are in.
Constructing == {u \in Threads : thr[u].pc \in {"mod_rlocked", "mod_build"}}

\* Whether a call that may construct a logger can start.
MayConstruct == Len(heap) + Cardinality(Constructing) < RaceLoggers

\* What a step of a goroutine leaves alone besides the lock and itself.
raceVars ==
  <<currentEnv, defaultLogger, loggers, heap, levels, rotMem, dirs, files,
    console, proc, origin, requested, last, writes>>

\* The variables of a construction and the registry after goroutine t has
\* constructed a logger with outcome o for the call op.
Constructed(t, op, name, o) ==
  /\ heap' = o.heap
  /\ levels' = o.levels
  /\ rotMem' = o.rotMem
  /\ dirs' = o.dirs
  /\ origin' = o.origin
  /\ requested' = o.requested
  /\ thr' = [thr EXCEPT
               ![t] = [pc |-> IF registerLoggerLocks(name) THEN "reg_lock"
                              ELSE IF op = "Init" THEN "init_built"
                              ELSE "idle",
                       op |-> op, name |-> name, built |-> o.id,
                       ret |-> IF op # "Init" /\ ~registerLoggerLocks(name)
                               THEN o.id ELSE Nil]]

\* Goroutine t is where the call op(name) starts: it makes the call now, or
\* it has made it and has been waiting for the lock since.
AtEntry(t, op, name) ==
  \/ thr[t].pc = "idle"
  \/ thr[t].pc = "called" /\ thr[t].op = op /\ thr[t].name = name

\* Goroutine t calls op(name), a function that starts by taking the read
\* lock, and has not got the lock yet.
Call(t, op, name) ==
  /\ Running
  /\ thr[t].pc = "idle"
  /\ thr' = [thr EXCEPT
               ![t] = [NoThread EXCEPT !.pc = "called", !.op = op,
                                       !.name = name]]
  /\ UNCHANGED loggersMu
  /\ UNCHANGED raceVars

\* Module(name), goroutine t: loggersMu.RLock()
ModuleRLock(t, name) ==
  /\ Running
  /\ AtEntry(t, "Module", name)
  /\ MayConstruct
  /\ CanRLock(loggersMu)
  /\ loggersMu' = RLock(loggersMu, t)
  /\ thr' = [thr EXCEPT
               ![t] = [NoThread EXCEPT
                         !.pc = "mod_rlocked", !.op = "Module",
                         !.name = name]]
  /\ UNCHANGED raceVars

\* Module: logger, exists := loggers[moduleName]; loggersMu.RUnlock(); the
\* logger found is returned
ModuleCheck(t) ==
  /\ thr[t].pc = "mod_rlocked"
  /\ loggersMu' = RUnlock(loggersMu, t)
  /\ thr' = [thr EXCEPT
               ![t] = IF thr[t].name \in DOMAIN loggers
                      THEN [@ EXCEPT !.pc = "idle",
                                     !.ret = loggers[thr[t].name]]
                      ELSE [@ EXCEPT !.pc = "mod_build"]]
  /\ UNCHANGED raceVars

\* Module: the logger is constructed by NewLogger, up to its call of
\* registerLogger; a failure is logged through the default logger, which is
\* returned.
ModuleBuild(t, mk, now) ==
  /\ thr[t].pc = "mod_build"
  /\ \E o \in {NewLoggerOut(ModuleConfig(thr[t].name, <<>>), mk, now)} :
       IF o.err
       THEN \E f \in {ModuleFallback(o)} :
              /\ files' = f.files
              /\ console' = f.console
              /\ thr' = [thr EXCEPT ![t].pc = "idle", ![t].ret = f.ret]
              /\ UNCHANGED constructionVars
       ELSE /\ Constructed(t, "Module", thr[t].name, o)
            /\ UNCHANGED <<files, console>>
  /\ UNCHANGED <<currentEnv, defaultLogger, loggers, proc, last,
                 loggersMu, writes>>

\* registerLogger: loggersMu.Lock()
RegisterLock(t) ==
  /\ thr[t].pc = "reg_lock"
  /\ CanLock(loggersMu)
  /\ loggersMu' = Lock(loggersMu, t)
  /\ thr' = [thr EXCEPT ![t].pc = "reg_write"]
  /\ UNCHANGED raceVars

\* registerLogger: loggers[name] = logger; loggersMu.Unlock(); NewLogger
\* returns, and so does Module.
RegisterWrite(t) ==
  /\ thr[t].pc = "reg_write"
  /\ loggers' = registerLogger(loggers, thr[t].built, thr[t].name)
  /\ writes' = Append(writes, [name |-> thr[t].name, logger |-> thr[t].built])
  /\ loggersMu' = Unlock(loggersMu, t)
  /\ thr' = [thr EXCEPT
               ![t] = IF thr[t].op = "Init"
                      THEN [@ EXCEPT !.pc = "init_built"]
                      ELSE [@ EXCEPT !.pc = "idle", !.ret = thr[t].built]]
  /\ UNCHANGED <<currentEnv, defaultLogger, heap, levels, rotMem, dirs,
                 files, console, proc, origin, requested, last>>

\* NewLogger(config), goroutine t: the logger is constructed, up to the call
\* of registerLogger; an error is returned to the caller.
NewLoggerBuild(t, config, mk, now) ==
  \E o \in {NewLoggerOut(config, mk, now)} :
    /\ Running
    /\ thr[t].pc = "idle"
    /\ MayConstruct
    /\ IF o.err
       THEN /\ thr' = [thr EXCEPT ![t] = [NoThread EXCEPT !.op = "NewLogger"]]
            /\ UNCHANGED constructionVars
       ELSE Constructed(t, "NewLogger",
                        fillDefaultConfig(config, currentEnv).Name, o)
    /\ UNCHANGED <<currentEnv, defaultLogger, loggers, files, console, proc,
                   last, loggersMu, writes>>

\* GetLogger(name), goroutine t: loggersMu.RLock()
GetLoggerRLock(t, name) ==
  /\ Running
  /\ AtEntry(t, "GetLogger", name)
  /\ CanRLock(loggersMu)
  /\ loggersMu' = RLock(loggersMu, t)
  /\ thr' = [thr EXCEPT
               ![t] = [NoThread EXCEPT
                         !.pc = "get_rlocked", !.op = "GetLogger",
                         !.name = name]]
  /\ UNCHANGED raceVars

\* GetLogger: the lookup, the return and the deferred loggersMu.RUnlock()
GetLoggerRead(t) ==
  /\ thr[t].pc = "get_rlocked"
  /\ loggersMu' = RUnlock(loggersMu, t)
  /\ thr' = [thr EXCEPT ![t].pc = "idle",
                        ![t].ret = GetLoggerOut(thr[t].name)]
  /\ UNCHANGED raceVars

\* SyncAll(), goroutine t: loggersMu.RLock()
SyncAllRLock(t) ==
  /\ Running
  /\ AtEntry(t, "SyncAll", "")
  /\ CanRLock(loggersMu)
  /\ loggersMu' = RLock(loggersMu, t)
  /\ thr' = [thr EXCEPT
               ![t] = [NoThread EXCEPT !.pc = "sync_rlocked", !.op = "SyncAll"]]
  /\ UNCHANGED raceVars

\* SyncAll: the iteration of the registry and the deferred
\* loggersMu.RUnlock()
SyncAllIterate(t) ==
  /\ thr[t].pc = "sync_rlocked"
  /\ loggersMu' = RUnlock(loggersMu, t)
  /\ thr' = [thr EXCEPT ![t].pc = "idle"]
  /\ UNCHANGED raceVars

\* Init(config), goroutine t: the logger is constructed by NewLogger, up to
\* its call of registerLogger; an error is returned to the caller.
InitBuild(t, config, mk, now) ==
  /\ Running
  /\ thr[t].pc = "idle"
  /\ MayConstruct
  /\ \E o \in {NewLoggerOut(config, mk, now)} :
       IF o.err
       THEN /\ thr' = [thr EXCEPT ![t] = [NoThread EXCEPT !.op = "Init"]]
            /\ UNCHANGED constructionVars
       ELSE Constructed(t, "Init",
                        fillDefaultConfig(config, currentEnv).Name, o)
  /\ UNCHANGED <<currentEnv, defaultLogger, loggers, files, console, proc,
                 last, loggersMu, writes>>

\* Init: defaultLogger = logger, with no lock held
InitSetDefault(t) ==
  /\ thr[t].pc = "init_built"
  /\ defaultLogger' = thr[t].built
  /\ thr' = [thr EXCEPT ![t].pc = "init_lock"]
  /\ UNCHANGED <<currentEnv, loggers, files, console, proc, last, loggersMu,
                 writes>>
  /\ UNCHANGED constructionVars

\* Init: loggersMu.Lock()
InitLock(t) ==
  /\ thr[t].pc = "init_lock"
  /\ CanLock(loggersMu)
  /\ loggersMu' = Lock(loggersMu, t)
  /\ thr' = [thr EXCEPT ![t].pc = "init_write"]
  /\ UNCHANGED raceVars

\* Init: loggers["default"] = logger; loggersMu.Unlock(); return nil
InitWrite(t) ==
  /\ thr[t].pc = "init_write"
  /\ loggers' = MapPut(loggers, "default", thr[t].built)
  /\ writes' = Append(writes, [name |-> "default", logger |-> thr[t].built])
  /\ loggersMu' = Unlock(loggersMu, t)
  /\ thr' = [thr EXCEPT ![t].pc = "idle"]
  /\ UNCHANGED <<currentEnv, defaultLogger, heap, levels, rotMem, dirs,
                 files, console, proc, origin, requested, last>>

\* ------------------------------------------------------------ specification
Init ==
  /\ currentEnv = EnvDevelopment
  /\ defaultLogger = Nil
  /\ loggers = <<>>
  /\ heap = <<>>
  /\ levels = <<>>
  /\ rotMem = [a \in RotAddrs |-> DefaultRotation]
  /\ dirs = {<<>>}
  /\ files = <<>>
  /\ console = <<>>
  /\ proc = "running"
  /\ origin = <<>>
  /\ requested = <<>>
  /\ last = NoCall
  /\ thr = [t \in Threads |-> NoThread]
  /\ loggersMu = [writer |-> Nil, readers |-> {}]
  /\ writes = <<>>

\* The registry: construction, initialization and lookup; a failed Module
\* logs through the default logger.
NextRegistry ==
  \/ \E c \in {ZeroConfig, QuietConfig}, mk \in BOOLEAN : ClogInit(c, mk, Now)
  \/ \E c \in {ZeroConfig, UserConfig}, mk \in BOOLEAN : NewLogger(c, mk, Now)
  \/ \E n \in Names : GetLogger(n)
  \/ \E n \in Names, cs \in {<<>>, <<UserConfig>>}, mk \in BOOLEAN :
       Module(n, cs, mk, Now)

SpecRegistry == Init /\ [][NextRegistry]_vars

\* The reserved name: Init, NewLogger and Module with configurations and
\* names that are empty, "default" and another, one call after the other.
NextDefault ==
  \/ \E c \in {ZeroConfig, NamedDefaultConfig, UserConfig}, mk \in BOOLEAN :
       ClogInit(c, mk, Now)
  \/ \E c \in {ZeroConfig, NamedDefaultConfig, UserConfig}, mk \in BOOLEAN :
       NewLogger(c, mk, Now)
  \/ \E n \in Names : GetLogger(n)
  \/ \E n \in {"", "default"}, mk \in BOOLEAN : Module(n, <<>>, mk, Now)

SpecDefault == Init /\ [][NextDefault]_vars

\* Levels: a default logger and named loggers, their derivations, SetLevel
\* and SetDefaultLevel, and emissions that show what each level lets through.
NextLevels ==
  \/ \E mk \in BOOLEAN :
       Len(heap) < LevelLoggers /\ ClogInit(ZeroConfig, mk, Now)
  \/ \E mk \in BOOLEAN :
       Len(heap) < LevelLoggers /\ NewLogger(UserConfig, mk, Now)
  \/ \E l \in Handles, s \in LevelStrings : SetLevel(l, s)
  \/ \E s \in LevelStrings : SetDefaultLevel(s)
  \/ \E l \in Handles : With(l, <<"a">>)
  \/ \E l \in Handles, lvl \in SomeLevels : Emit(l, lvl, <<>>)
  \/ \E lvl \in SomeLevels : PkgEmit(lvl, <<>>)

SpecLevels == Init /\ [][NextLevels]_vars

\* The level gate: a logger configured at each of the six levels without
\* console output, one with it, and the twelve emission methods.
NextGate ==
  \/ \E c \in LevelConfigs \cup {UserConfig}, mk \in BOOLEAN :
       Len(heap) < GateLoggers /\ NewLogger(c, mk, Now)
  \/ \E l \in Handles, lvl \in EmitLevels, fs \in GateFields :
       Emit(l, lvl, fs)
  \/ \E l \in Handles, lvl \in EmitLevels : Emitf(l, lvl)
  \/ \E l \in Handles, failed \in BOOLEAN : Sync(l, failed)
  \/ Recover

SpecGate == Init /\ [][NextGate]_vars

\* Derivation: chains of With and WithFields from one logger, and the
\* records the loggers of the chain write.
NextDerive ==
  \/ \E mk \in BOOLEAN : NewLogger(ZeroConfig, mk, Now)
  \/ \E l \in Handles : With(l, <<"a">>)
  \/ \E l \in Handles, q \in Orders({"b", "c"}) : WithFields(l, q)
  \/ \E l \in Handles : Emit(l, ZapInfoLevel, <<"d">>)
  \/ \E l \in Handles : Emitf(l, ZapInfoLevel)

SpecDerive == Init /\ [][NextDerive]_vars

\* The initial states in which the caller has filled in a rotation policy
\* of its own.
InitConfig ==
  /\ currentEnv = EnvDevelopment
  /\ defaultLogger = Nil
  /\ loggers = <<>>
  /\ heap = <<>>
  /\ levels = <<>>
  /\ rotMem \in {[a \in RotAddrs |->
                    IF a = CallerRot THEN r ELSE DefaultRotation] :
                  r \in RotationInputs}
  /\ dirs = {<<>>}
  /\ files = <<>>
  /\ console = <<>>
  /\ proc = "running"
  /\ origin = <<>>
  /\ requested = <<>>
  /\ last = NoCall
  /\ thr = [t \in Threads |-> NoThread]
  /\ loggersMu = [writer |-> Nil, readers |-> {}]
  /\ writes = <<>>

\* Whether the process has constructed no logger and has not failed to.
Fresh == heap = <<>> /\ ~last.err

\* Configuration: the first logger of the process is constructed from each
\* configuration, under each environment; the process gives up when the
\* construction fails.
NextConfig ==
  \/ \E env \in {EnvDevelopment, EnvProduction} :
       Fresh /\ SetEnvironment(env)
  \/ Fresh /\ GetDefaultConfig
  \/ \E c \in ConfigInputs, mk \in BOOLEAN :
       Fresh /\ NewLogger(c, mk, Now)
  \/ \E l \in Handles : Emitf(l, ZapInfoLevel)

SpecConfig == InitConfig /\ [][NextConfig]_vars

\* The names the goroutines ask for: one the registry stores and the
\* reserved one.
RaceNames == {"user", "default"}

\* The loggers the registry holds.
Registered == {loggers[n] : n \in DOMAIN loggers}

\* Goroutines: each calls Module, GetLogger, SyncAll and Init, one call
\* after the other, and emits through a logger that a call returned to it
\* and that the registry does not hold.
NextRace ==
  \/ \E t \in Threads, n \in RaceNames : ModuleRLock(t, n)
  \/ \E t \in Threads : ModuleCheck(t)
  \/ \E t \in Threads, mk \in BOOLEAN : ModuleBuild(t, mk, Now)
  \/ \E t \in Threads : RegisterLock(t)
  \/ \E t \in Threads : RegisterWrite(t)
  \/ \E t \in Threads, n \in RaceNames : GetLoggerRLock(t, n)
  \/ \E t \in Threads : GetLoggerRead(t)
  \/ \E t \in Threads : SyncAllRLock(t)
  \/ \E t \in Threads : SyncAllIterate(t)
  \/ \E t \in Threads, mk \in BOOLEAN : InitBuild(t, ZeroConfig, mk, Now)
  \/ \E t \in Threads : InitSetDefault(t)
  \/ \E t \in Threads : InitLock(t)
  \/ \E t \in Threads : InitWrite(t)
  \/ \E t \in Threads :
       /\ thr[t].pc = "idle"
       /\ thr[t].ret \in Handles \ Registered
       /\ Emitf(thr[t].ret, ZapInfoLevel)

SpecRace == Init /\ [][NextRace]_vars

\* Whether one more logger may come to be where the registry grows.
MayGrow == Len(heap) + Cardinality(Constructing) < GrowLoggers

\* Goroutines making every call that reaches the registry or a logger:
\* Init, NewLogger, Module, GetLogger and SyncAll step by step, and
\* SetLevel, With and Sync on the loggers there are.
NextGrow ==
  \/ \E t \in Threads : MayGrow /\ ModuleRLock(t, "user")
  \/ \E t \in Threads : ModuleCheck(t)
  \/ \E t \in Threads : ModuleBuild(t, TRUE, Now)
  \/ \E t \in Threads : MayGrow /\ NewLoggerBuild(t, UserConfig, TRUE, Now)
  \/ \E t \in Threads : RegisterLock(t)
  \/ \E t \in Threads : RegisterWrite(t)
  \/ \E t \in Threads : GetLoggerRLock(t, "user")
  \/ \E t \in Threads : GetLoggerRead(t)
  \/ \E t \in Threads : SyncAllRLock(t)
  \/ \E t \in Threads : SyncAllIterate(t)
  \/ \E t \in Threads : MayGrow /\ InitBuild(t, ZeroConfig, TRUE, Now)
  \/ \E t \in Threads : InitSetDefault(t)
  \/ \E t \in Threads : InitLock(t)
  \/ \E t \in Threads : InitWrite(t)
  \/ \E l \in Handles : SetLevel(l, ErrorLevel)
  \/ \E l \in Handles : origin[l] = l /\ MayGrow /\ With(l, <<"a">>)
  \/ \E l \in Handles : Sync(l, FALSE)

SpecGrow == Init /\ [][NextGrow]_vars

\* The goroutines that have called Module and wait for the read lock.
Starting == {u \in Threads : thr[u].pc = "called" /\ thr[u].op = "Module"}

\* Whether one more logger may come to be where every call has to return.
MayLive ==
  Len(heap) + Cardinality(Constructing) + Cardinality(Starting) < LiveLoggers

\* A step of goroutine t that waits for nothing: what the function does with
\* the lock held, or with no lock at all. The directory of a module's log
\* file can be created unless the records of the failures are used up.
Proceed(t) ==
  \/ ModuleCheck(t)
  \/ \E mk \in BOOLEAN :
       (mk \/ Written < MaxRecords) /\ ModuleBuild(t, mk, Now)
  \/ RegisterWrite(t)
  \/ GetLoggerRead(t)
  \/ SyncAllIterate(t)
  \/ InitSetDefault(t)
  \/ InitWrite(t)

\* A step of goroutine t that may have to wait: RLock() in the call it has
\* made, Lock() in registerLogger and in Init.
Acquire(t) ==
  \/ thr[t].pc = "called" /\ ModuleRLock(t, thr[t].name)
  \/ thr[t].pc = "called" /\ GetLoggerRLock(t, thr[t].name)
  \/ thr[t].pc = "called" /\ SyncAllRLock(t)
  \/ RegisterLock(t)
  \/ InitLock(t)

\* Goroutines that call Init, NewLogger, Module, GetLogger and SyncAll, one
\* call after the other; a call that starts with RLock() is made first and
\* gets the lock in a later step. The default logger writes to a directory
\* of its own, so that a module logger can fail to be constructed after it.
NextLive ==
  \/ \E t \in Threads : MayLive /\ Call(t, "Module", "user")
  \/ \E t \in Threads : Call(t, "GetLogger", "user")
  \/ \E t \in Threads : Call(t, "SyncAll", "")
  \/ \E t \in Threads : MayLive /\ NewLoggerBuild(t, UserConfig, TRUE, Now)
  \/ \E t \in Threads, mk \in BOOLEAN :
       MayLive /\ InitBuild(t, NamedDefaultConfig, mk, Now)
  \/ \E t \in Threads : Proceed(t)
  \/ \E t \in Threads : Acquire(t)

\* The scheduler runs every goroutine that can take a step, and
\* sync.RWMutex starves nobody: a blocked Lock() keeps later readers out
\* until it has had the lock, and Unlock() lets the readers that waited in
\* before the next writer. So a goroutine whose lock is free again and
\* again gets it.
SpecLive ==
  /\ Init
  /\ [][NextLive]_vars
  /\ \A t \in Threads : WF_vars(Proceed(t)) /\ SF_vars(Acquire(t))

\* Outputs: the first logger of the process is constructed by Init,
\* NewLogger or Module from each configuration, a child is derived from it,
\* and a record is emitted through each entry point.
NextOutput ==
  \/ \E c \in OutputConfigs, mk \in BOOLEAN : Fresh /\ ClogInit(c, mk, Now)
  \/ \E c \in OutputConfigs, mk \in BOOLEAN : Fresh /\ NewLogger(c, mk, Now)
  \/ \E c \in OutputConfigs, mk \in BOOLEAN :
       Fresh /\ Module("db", <<c>>, mk, Now)
  \/ \E l \in Handles : Len(heap) < 2 /\ With(l, <<"a">>)
  \/ \E l \in Handles : Emit(l, ZapInfoLevel, <<"b">>)
  \/ \E l \in Handles : Emitf(l, ZapInfoLevel)
  \/ PkgEmit(ZapInfoLevel, <<"b">>)
  \/ PkgEmitf(ZapInfoLevel)

SpecOutput == Init /\ [][NextOutput]_vars

\* Log files: the first logger of the process is constructed by NewLogger or
\* by Module from each configuration, under each environment, and writes a
\* record.
NextPath ==
  \/ \E env \in {EnvDevelopment, EnvProduction} :
       Fresh /\ SetEnvironment(env)
  \/ \E c \in PathConfigs, mk \in BOOLEAN : Fresh /\ NewLogger(c, mk, Now)
  \/ \E n \in Names, cs \in {<<>>} \cup {<<c>> : c \in PathConfigs},
        mk \in BOOLEAN :
       Fresh /\ Module(n, cs, mk, Now)
  \/ \E l \in Handles : Emitf(l, ZapInfoLevel)

SpecPath == Init /\ [][NextPath]_vars

\* Level strings: a logger is constructed at each spelling and set to each
\* spelling.
NextParse ==
  \/ \E s \in LevelSpellings, mk \in BOOLEAN :
       Fresh /\ NewLogger([ZeroConfig EXCEPT !.Level = s], mk, Now)
  \/ \E l \in Handles, s \in LevelSpellings : SetLevel(l, s)

SpecParse == Init /\ [][NextParse]_vars

\* Flushing: loggers registered by Init, NewLogger and Module, one of them
\* under two names (Init with a named configuration), Sync and SyncAll with
\* flushes that fail.
NextSync ==
  \/ \E c \in {ZeroConfig, UserConfig}, mk \in BOOLEAN : ClogInit(c, mk, Now)
  \/ \E mk \in BOOLEAN : NewLogger(UserConfig, mk, Now)
  \/ \E mk \in BOOLEAN : Module("db", <<>>, mk, Now)
  \/ \E l \in Handles, failed \in BOOLEAN : Sync(l, failed)
  \/ \E q \in Orders(DOMAIN loggers) :
       \E fails \in [DOMAIN q -> BOOLEAN] : SyncAll(q, fails)

SpecSync == Init /\ [][NextSync]_vars

\* The package-level facade, before and after Init, next to a logger that
\* is registered without Init.
NextFacade ==
  \/ \E mk \in BOOLEAN :
       Len(heap) < FacadeLoggers /\ ClogInit(ZeroConfig, mk, Now)
  \/ \E mk \in BOOLEAN :
       Len(heap) < FacadeLoggers /\ NewLogger(UserConfig, mk, Now)
  \/ \E s \in LevelStrings : SetDefaultLevel(s)
  \/ \E lvl \in EmitLevels : PkgEmit(lvl, <<"a">>)
  \/ \E lvl \in EmitLevels : PkgEmitf(lvl)
  \/ PkgWith(<<"a">>)
  \/ PkgWithFields(<<"b">>)
  \/ \E failed \in BOOLEAN : PkgSync(failed)
  \/ Recover

SpecFacade == Init /\ [][NextFacade]_vars

\* ------------------------------------------------------------------- claims
\* The names the registry stores a constructed logger under: every name but
\* "" (which construction defaults to "default") and "default".
StoredNames == Names \ {"", "default"}

\* C1, as claimed: for every module name, two consecutive calls Module(name)
\* without an explicit configuration return the same logger, which is the
\* one stored in the registry under name, and the second call constructs
\* nothing.
C1_AnyNameIdempotent ==
  [][\A n \in Names, mk \in BOOLEAN :
       (/\ last.op = "Module" /\ last.name = n /\ last.ncfg = 0
        /\ Module(n, <<>>, mk, Now))
       => /\ last'.ret = last.ret
          /\ n \in DOMAIN loggers'
          /\ loggers'[n] = last'.ret
          /\ heap' = heap]_vars

\* C1, amended: for every module name other than "" and "default", when a
\* call Module(name) without an explicit configuration did not fail to
\* construct its logger, the next call Module(name) without an explicit
\* configuration returns the same logger, which is the one stored in the
\* registry under name, and constructs nothing.
C1_StoredNameIdempotent ==
  [][\A n \in StoredNames, mk \in BOOLEAN :
       (/\ last.op = "Module" /\ last.name = n /\ last.ncfg = 0
        /\ ~last.err
        /\ Module(n, <<>>, mk, Now))
       => /\ last'.ret = last.ret
          /\ n \in DOMAIN loggers'
          /\ loggers'[n] = last'.ret
          /\ heap' = heap]_vars

\* C1, witness: a call Module("user") without a configuration has just
\* returned, without constructing, the registered logger that an earlier
\* call Module("user") without a configuration built.
C1_Witness ==
  /\ last.op = "Module" /\ last.name = "user" /\ last.ncfg = 0
  /\ ~last.built /\ ~last.err
  /\ "user" \in DOMAIN loggers
  /\ last.ret = loggers["user"]
  /\ heap[last.ret].config.Filename = ModuleFilename("user")

\* The records logger l has written to its file below the level lvl.
WrittenBelow(l, lvl) ==
  {i \in DOMAIN Content(files, LogFile(l)) :
     /\ Content(files, LogFile(l))[i].logger = heap[l].name
     /\ Content(files, LogFile(l))[i].level < lvl}

\* Whether this step appended exactly the record r to the file of logger l
\* and changed no other file.
AppendedTo(l, r) ==
  files' = MapPut(files, LogFile(l), Append(Content(files, LogFile(l)), r))

\* C2: a constructed logger and every logger derived from it by With or
\* WithFields are at one level, the one last asked for in the family (at
\* construction or by SetLevel on any member); every emission of every
\* member is let through exactly when its level is at least that level.
C2_FamilySharesLevel ==
  /\ [](\A l \in Handles :
          /\ EffLevel(l) = parseLevel(requested[origin[l]])
          /\ EffLevel(l) = EffLevel(origin[l]))
  /\ [][\A l \in Handles, lvl \in SomeLevels :
          (last'.op = "Emit" /\ Emit(l, lvl, <<>>))
          => IF lvl >= parseLevel(requested[origin[l]])
             THEN AppendedTo(l, Record(l, lvl, <<>>))
             ELSE files' = files /\ console' = console]_vars

\* C2, witness: in a family of two loggers built at one level, SetLevel has
\* asked for a more verbose level and a member has then written a record
\* below the level of construction.
C2_Witness ==
  /\ last.op = "Emit"
  /\ \E l, m \in Handles :
       /\ l # m /\ origin[l] = origin[m]
       /\ EffLevel(l) < parseLevel(heap[l].config.Level)
       /\ WrittenBelow(m, parseLevel(heap[l].config.Level)) # {}

\* C3: SetLevel(s) and, on an initialized default logger, SetDefaultLevel(s)
\* put the logger at parseLevel(s), leave the records written untouched and
\* change nothing when the logger is at that level already; an emission,
\* through the logger or through the package function, is recorded exactly
\* when its level is at least the logger's level.
C3_SetLevelGates ==
  [][/\ \A l \in Handles, s \in LevelStrings :
          (/\ last'.op = "SetLevel" /\ requested'[origin[l]] = s
           /\ SetLevel(l, s))
          => /\ EffLevel(l)' = parseLevel(s)
             /\ files' = files /\ console' = console
             /\ EffLevel(l) = parseLevel(s) => levels' = levels
     /\ \A s \in LevelStrings :
          (/\ last'.op = "SetDefaultLevel" /\ defaultLogger # Nil
           /\ SetDefaultLevel(s))
          => /\ EffLevel(defaultLogger)' = parseLevel(s)
             /\ files' = files /\ console' = console
             /\ EffLevel(defaultLogger) = parseLevel(s) => levels' = levels
     /\ \A l \in Handles, lvl \in SomeLevels :
          (last'.op = "Emit" /\ Emit(l, lvl, <<>>))
          => (files' # files <=> lvl >= EffLevel(l))
     /\ \A lvl \in SomeLevels :
          (/\ last'.op = "PkgEmit" /\ defaultLogger # Nil
           /\ PkgEmit(lvl, <<>>))
          => (files' # files <=> lvl >= EffLevel(defaultLogger))]_vars

\* C3, witness: the default logger, built at "info", has been set to "debug"
\* and has then recorded a debug emission.
C3_Witness ==
  /\ last.op \in {"Emit", "PkgEmit"}
  /\ defaultLogger # Nil
  /\ heap[defaultLogger].config.Level = InfoLevel
  /\ requested[defaultLogger] = DebugLevel
  /\ WrittenBelow(defaultLogger, ZapInfoLevel) # {}

\* C8: SetLevel on a logger leaves the level of every logger of another
\* construction, and of the loggers derived from it, unchanged.
C8_OtherFamiliesKeepLevel ==
  [][\A l \in Handles, s \in LevelStrings :
       (/\ last'.op = "SetLevel" /\ requested'[origin[l]] = s
        /\ SetLevel(l, s))
       => \A m \in Handles :
            origin[m] # origin[l] => EffLevel(m)' = EffLevel(m)]_vars

\* C8, witness: SetLevel has just changed the level of one family while a
\* logger derived from another construction is still at the level it was
\* built at, which differs.
C8_Witness ==
  /\ last.op = "SetLevel"
  /\ \E l, m \in Handles :
       /\ origin[l] # origin[m] /\ origin[m] # m
       /\ EffLevel(l) # parseLevel(heap[l].config.Level)
       /\ EffLevel(m) = parseLevel(heap[m].config.Level)
       /\ EffLevel(m) # EffLevel(l)

\* C4: for a logger constructed with console output disabled at level L, an
\* emission at level M, structured or formatted, appends one record to the
\* logger's file when M >= L (debug < info < warn < error < panic < fatal)
\* and leaves every file unchanged otherwise.
C4_LevelGate ==
  [][\A l \in Handles, lvl \in EmitLevels :
       ~heap[l].config.ConsoleOutput
       => /\ \A fs \in GateFields :
               (last'.op = "Emit" /\ Emit(l, lvl, fs))
               => IF lvl >= parseLevel(heap[l].config.Level)
                  THEN AppendedTo(l, Record(l, lvl, fs))
                  ELSE files' = files
          /\ (last'.op = "Emitf" /\ Emitf(l, lvl))
             => IF lvl >= parseLevel(heap[l].config.Level)
                THEN AppendedTo(l, Record(l, lvl, <<>>))
                ELSE files' = files]_vars

\* C4, witness: a logger constructed at "warn" without console output has
\* written a warn record to its file and nothing has reached the console.
C4_Witness ==
  /\ last.op \in {"Emit", "Emitf"}
  /\ \E l \in Handles :
       /\ ~heap[l].config.ConsoleOutput
       /\ heap[l].config.Level = WarnLevel
       /\ Len(Content(files, LogFile(l))) = 1
       /\ Content(files, LogFile(l))[1].level = ZapWarnLevel
  /\ console = <<>>

\* The package-level functions, as the call history names them.
PkgOps ==
  {"SetDefaultLevel", "PkgEmit", "PkgEmitf", "PkgWith", "PkgWithFields",
   "PkgSync"}

\* C5: while the default logger is nil (Init has never succeeded), every
\* package-level function writes no record, neither panics nor exits,
\* leaves the registry, the default logger and every logger unchanged, and
\* returns nil (With, WithFields) or a nil error (Sync).
C5_UninitializedFacade ==
  [][(defaultLogger = Nil /\ last'.op \in PkgOps)
     => /\ files' = files /\ console' = console
        /\ proc' = "running"
        /\ loggers' = loggers /\ defaultLogger' = Nil
        /\ heap' = heap /\ levels' = levels
        /\ last'.ret = Nil /\ ~last'.err]_vars

\* C5, witness: Init has never succeeded, a logger is registered, and the
\* last call made was a package-level function.
C5_Witness ==
  /\ defaultLogger = Nil
  /\ "default" \notin DOMAIN loggers
  /\ "user" \in DOMAIN loggers
  /\ last.op = "PkgSync"

\* The configurations Module is given in the registry specification.
ModuleConfigs == {<<>>, <<UserConfig>>}

\* The directory NewLogger needs for configuration config.
LogDir(config) ==
  Dir(getLogFilename(fillDefaultConfig(config, currentEnv), Now, Pid))

\* Whether creating the log directory of config fails: it is missing and
\* cannot be made.
MkdirFails(config, mk) == LogDir(config) \notin dirs /\ ~mk

\* C6: when Module finds no logger registered under the name and
\* construction fails, it returns the default logger, after one error-level
\* emission about the failure through it (written where the default
\* logger's level lets error through), or nil when there is no default
\* logger, and then writes nothing; the registry gets no entry either way.
C6_ModuleFallback ==
  [][\A n \in Names, cs \in ModuleConfigs, mk \in BOOLEAN :
       (/\ last'.op = "Module" /\ last'.name = n
        /\ n \notin DOMAIN loggers
        /\ MkdirFails(ModuleConfig(n, cs), mk)
        /\ Module(n, cs, mk, Now))
       => /\ last'.ret = defaultLogger
          /\ loggers' = loggers /\ heap' = heap
          /\ defaultLogger' = defaultLogger
          /\ IF defaultLogger = Nil
             THEN files' = files /\ console' = console
             ELSE IF ZapErrorLevel >= EffLevel(defaultLogger)
             THEN AppendedTo(defaultLogger,
                             Record(defaultLogger, ZapErrorLevel,
                                    ModuleFailureFields))
             ELSE files' = files /\ console' = console]_vars

\* C6, witness: Module has just failed to construct a logger for a name
\* that is not registered, has returned the default logger, and the record
\* of the failure is in the default logger's file.
C6_Witness ==
  /\ last.op = "Module" /\ last.err
  /\ last.name \notin DOMAIN loggers
  /\ defaultLogger # Nil /\ last.ret = defaultLogger
  /\ Len(Content(files, LogFile(defaultLogger))) = 1
  /\ Content(files, LogFile(defaultLogger))[1].fields = ModuleFailureFields

\* The configurations NewLogger and Init are given in the registry
\* specification.
RegistryConfigs == {ZeroConfig, UserConfig, QuietConfig}

\* C7: NewLogger returns an error exactly when the log directory cannot be
\* created, and then returns a nil logger, does not panic and leaves the
\* registry unchanged; Init then returns the error and leaves the default
\* logger and the registry, its entry "default" included, as they were.
C7_ConstructionError ==
  [][\A c \in RegistryConfigs, mk \in BOOLEAN :
       /\ (last'.op = "NewLogger" /\ NewLogger(c, mk, Now))
          => /\ last'.err <=> MkdirFails(c, mk)
             /\ last'.err
                => /\ last'.ret = Nil /\ proc' = "running"
                   /\ loggers' = loggers /\ heap' = heap
                   /\ defaultLogger' = defaultLogger
       /\ (last'.op = "Init" /\ ClogInit(c, mk, Now))
          => /\ last'.err <=> MkdirFails(c, mk)
             /\ last'.err
                => /\ proc' = "running"
                   /\ loggers' = loggers /\ heap' = heap
                   /\ defaultLogger' = defaultLogger]_vars

\* C7, witness: after an Init that succeeded, an Init whose log directory
\* cannot be created has just returned its error, and the default logger
\* is still the registry's entry "default".
C7_Witness ==
  /\ last.op = "Init" /\ last.err
  /\ defaultLogger # Nil
  /\ "default" \in DOMAIN loggers
  /\ loggers["default"] = defaultLogger

\* C10: GetLogger(name) returns the logger registered under name when there
\* is one and the default logger (nil before Init succeeds) otherwise; it
\* constructs no logger and changes neither the registry nor the default
\* logger.
C10_GetLoggerLookup ==
  [][\A n \in Names :
       (last'.op = "GetLogger" /\ last'.name = n /\ GetLogger(n))
       => /\ n \in DOMAIN loggers => last'.ret = loggers[n]
          /\ n \notin DOMAIN loggers => last'.ret = defaultLogger
          /\ loggers' = loggers /\ defaultLogger' = defaultLogger
          /\ heap' = heap /\ levels' = levels
          /\ files' = files /\ console' = console]_vars

\* C10, witness: GetLogger has just returned the default logger for a name
\* that is not registered while another name is registered.
C10_Witness ==
  /\ last.op = "GetLogger"
  /\ last.name \notin DOMAIN loggers
  /\ loggers # <<>> /\ "user" \in DOMAIN loggers
  /\ defaultLogger # Nil /\ last.ret = defaultLogger

\* The field lists With and WithFields are given in the derivation
\* specification.
DeriveFields == {<<"a">>} \cup Orders({"b", "c"})

\* C9: With(f...) and WithFields (its map iterated in some order f) return
\* a new logger whose bound fields are the parent's followed by f, leave
\* the bound fields of the parent and of every other logger as they were,
\* and every record a logger emits carries its bound fields followed by the
\* fields of the call.
C9_AdditiveDerivation ==
  [][/\ \A l \in Handles, fs \in DeriveFields :
          (/\ last'.op \in {"With", "WithFields"}
           /\ With(l, fs) \/ WithFields(l, fs))
          => /\ last'.ret \notin Handles
             /\ heap'[last'.ret].fields = heap[l].fields \o fs
             /\ \A m \in Handles : heap'[m] = heap[m]
             /\ files' = files
     /\ \A l \in Handles :
          /\ (last'.op = "Emit" /\ Emit(l, ZapInfoLevel, <<"d">>))
             => AppendedTo(l, [level |-> ZapInfoLevel,
                               logger |-> heap[l].name,
                               fields |-> heap[l].fields \o <<"d">>])
          /\ (last'.op = "Emitf" /\ Emitf(l, ZapInfoLevel))
             => AppendedTo(l, [level |-> ZapInfoLevel,
                               logger |-> heap[l].name,
                               fields |-> heap[l].fields])]_vars

\* C9, witness: a logger derived twice, by With and then by WithFields, has
\* written a record carrying both field sets and the field of the call,
\* while its parent and the constructed logger still carry their own.
C9_Witness ==
  /\ last.op = "Emit"
  /\ Len(heap) = 3
  /\ heap[1].fields = <<>>
  /\ heap[2].fields = <<"a">>
  /\ heap[3].fields = <<"a", "c", "b">>
  /\ \E f \in DOMAIN files :
       files[f] = <<[level |-> ZapInfoLevel, logger |-> "default",
                     fields |-> <<"a", "c", "b", "d">>]>>

\* The flushes of the last call that were made on logger h.
FlushesOf(c, h) == {i \in DOMAIN c.flushed : c.flushed[i].logger = h}

\* The names logger h is registered under.
NamesOf(h) == {n \in DOMAIN loggers : loggers[n] = h}

\* C11, as claimed: SyncAll flushes every logger that is in the registry
\* exactly once, goes on after a flush that fails, reports no error and
\* leaves the registry unchanged; Sync returns the flush error of its logger.
C11_FlushEachLoggerOnce ==
  [][/\ last'.op = "SyncAll"
        => /\ \A h \in Handles :
                Cardinality(FlushesOf(last', h))
                  = IF NamesOf(h) # {} THEN 1 ELSE 0
           /\ ~last'.err
           /\ loggers' = loggers /\ defaultLogger' = defaultLogger
     /\ \A l \in Handles, failed \in BOOLEAN :
          (last'.op = "Sync" /\ Sync(l, failed))
          => last'.err = failed]_vars

\* C11, amended: SyncAll flushes every logger that is in the registry once
\* for each name it is registered under (a logger that Init registered as
\* "default" and NewLogger under its own name is flushed twice), goes on
\* after a flush that fails, reports no error and leaves the registry
\* unchanged; Sync flushes its logger once and returns that flush's error.
C11_FlushEachEntryOnce ==
  [][/\ last'.op = "SyncAll"
        => /\ \A h \in Handles :
                Cardinality(FlushesOf(last', h)) = Cardinality(NamesOf(h))
           /\ Len(last'.flushed) = Cardinality(DOMAIN loggers)
           /\ ~last'.err
           /\ loggers' = loggers /\ defaultLogger' = defaultLogger
           /\ heap' = heap /\ files' = files /\ proc' = proc
     /\ \A l \in Handles, failed \in BOOLEAN :
          (last'.op = "Sync" /\ Sync(l, failed))
          => /\ last'.err = failed
             /\ last'.flushed = <<[logger |-> l, err |-> failed]>>]_vars

\* C11, witness: SyncAll has just flushed three registry entries of two
\* loggers; the first flush failed and the others were still made.
C11_Witness ==
  /\ last.op = "SyncAll" /\ ~last.err
  /\ Cardinality(DOMAIN loggers) = 3
  /\ Len(last.flushed) = 3
  /\ last.flushed[1].err
  /\ \E h \in Handles : Cardinality(NamesOf(h)) = 2
  /\ \E i, j \in 1..3 : last.flushed[i].logger # last.flushed[j].logger

\* The configuration NewLogger has just built a logger from.
BuiltConfig == heap'[last'.ret].config

\* The rotation policy of the rotating writer NewLogger has just made.
BuiltRotator == heap'[last'.ret].rotator

\* The rotation number n of configuration c as the caller passed it: 0 when
\* the policy is omitted.
Supplied(c, n) == IF c.FileRotation = Nil THEN 0 ELSE n[rotMem[c.FileRotation]]

\* C12, as claimed: NewLogger rejects no configuration, and the configuration
\* it uses has every field left at its zero value replaced by the value of
\* DefaultConfig and every other field retained; each of MaxSize, MaxAge,
\* MaxBackups of a supplied rotation policy becomes 100, 7, 10 exactly when
\* it is <= 0.
C12_EveryZeroFieldDefaulted ==
  [][last'.op = "NewLogger"
     => LET c == last'.cfg[1]
            def == DefaultConfig(currentEnv)
            size == Supplied(c, [r \in RotationInputs \cup {DefaultRotation}
                                   |-> r.MaxSize])
            age == Supplied(c, [r \in RotationInputs \cup {DefaultRotation}
                                  |-> r.MaxAge])
            backups == Supplied(c, [r \in RotationInputs
                                            \cup {DefaultRotation}
                                      |-> r.MaxBackups])
        IN /\ last'.err => LogDir(c) \notin dirs
           /\ ~last'.err
              => /\ BuiltConfig.Level
                      = IF c.Level = <<>> THEN InfoLevel ELSE c.Level
                 /\ BuiltConfig.Format
                      = IF c.Format = "" THEN FormatConsole ELSE c.Format
                 /\ BuiltConfig.Filename
                      = IF c.Filename = EmptyPath THEN DefaultFilename
                        ELSE c.Filename
                 /\ BuiltConfig.Name
                      = IF c.Name = "" THEN "default" ELSE c.Name
                 /\ BuiltConfig.Environment
                      = IF c.Environment = "" THEN currentEnv
                        ELSE c.Environment
                 /\ BuiltConfig.ConsoleOutput
                      = IF ~c.ConsoleOutput THEN def.ConsoleOutput ELSE TRUE
                 /\ BuiltConfig.EnableCaller
                      = IF ~c.EnableCaller THEN def.EnableCaller ELSE TRUE
                 /\ BuiltConfig.EnableColor
                      = IF ~c.EnableColor THEN def.EnableColor ELSE TRUE
                 /\ BuiltRotator.MaxSize = IF size <= 0 THEN 100 ELSE size
                 /\ BuiltRotator.MaxAge = IF age <= 0 THEN 7 ELSE age
                 /\ BuiltRotator.MaxBackups
                      = IF backups <= 0 THEN 10 ELSE backups]_vars

\* Whether two characters are one letter in either case.
SameLetter(a, b) ==
  a = b \/ \E i \in 1..Len(UpperChars) : {a, b} = {UpperChars[i], LowerChars[i]}

\* Whether s spells the level name in any mix of upper and lower case.
Spells(s, name) ==
  Len(s) = Len(name) /\ \A i \in 1..Len(s) : SameLetter(s[i], name[i])

\* The level each level name stands for, in the order
\* debug < info < warn < error < panic < fatal.
LevelNamed(name) ==
  CASE name = DebugLevel -> ZapDebugLevel
    [] name = InfoLevel -> ZapInfoLevel
    [] name = WarnLevel -> ZapWarnLevel
    [] name = ErrorLevel -> ZapErrorLevel
    [] name = PanicLevel -> ZapPanicLevel
    [] name = FatalLevel -> ZapFatalLevel

\* C13: a logger whose level string, given at construction or to SetLevel,
\* spells one of the six level names in any case is at that name's level;
\* with any other string, the empty one included, it is at info; no level
\* string makes the call fail.
C13_LevelResolution ==
  /\ [](\A l \in Handles :
          LET s == requested[origin[l]] IN
          /\ \A name \in LevelNames :
               Spells(s, name) => EffLevel(l) = LevelNamed(name)
          /\ (\A name \in LevelNames : ~Spells(s, name))
             => EffLevel(l) = ZapInfoLevel)
  /\ [](proc = "running")
  /\ [][last'.op = "NewLogger" /\ last'.err
        => LogDir(last'.cfg[1]) \notin dirs]_vars

\* C13, witness: a logger constructed at "Debug" has been set to "WARN" and
\* is at the warn level.
C13_Witness ==
  /\ last.op = "SetLevel"
  /\ \E l \in Handles :
       /\ heap[l].config.Level = <<"D", "e", "b", "u", "g">>
       /\ requested[l] = <<"W", "A", "R", "N">>
       /\ EffLevel(l) = ZapWarnLevel

\* C14, as claimed: DefaultConfig returns Level = info, Format = console,
\* Filename = "./logs/app.log", ConsoleOutput = true, EnableCaller = true,
\* EnableColor = true and a rotation policy, not nil, with MaxSize = 100,
\* MaxAge = 7, MaxBackups = 10, Compress = false.
C14_DefaultConfigValues ==
  last.op = "DefaultConfig"
  => LET d == last.cfg[1] IN
     /\ d.Level = <<"i", "n", "f", "o">>
     /\ d.Format = "console"
     /\ d.Filename = [dir |-> <<".", "logs">>, stem |-> "app",
                      sfx |-> <<>>, ext |-> ".log"]
     /\ d.ConsoleOutput = TRUE
     /\ d.EnableCaller = TRUE
     /\ d.EnableColor = TRUE
     /\ d.FileRotation # Nil
     /\ rotMem[d.FileRotation]
          = [MaxSize |-> 100, MaxAge |-> 7, MaxBackups |-> 10,
             Compress |-> FALSE]

\* <logs-dir>/<name>.log, the file of module name.
ModuleFile(name) ==
  [dir |-> <<"logs">>, stem |-> name, sfx |-> <<>>, ext |-> ".log"]

C18_ResolvedLogPath ==
  [][last'.op \in {"NewLogger", "Module"} /\ last'.built
     => LET d == BuiltConfig
            f == BuiltRotator.Filename
        IN IF d.Environment # "development"
              \/ (~d.UseTimeStampFilename /\ ~d.UsePidFilename)
           THEN f = d.Filename
           ELSE /\ FileOf([f EXCEPT !.sfx = <<>>]) = FileOf(d.Filename)
                /\ f.sfx
                     = (IF d.UseTimeStampFilename THEN <<"_", Now>> ELSE <<>>)
                       \o (IF d.UsePidFilename THEN <<"_pid", Pid>>
                           ELSE <<>>)]_vars

\* C18, witness: under the development environment taken from the process
\* default, a logger with both flags set has written to
\* tmp/user_<timestamp>_pid<process-id>.log.
C18_Witness ==
  /\ last.op = "Emitf"
  /\ Len(heap) = 1
  /\ heap[1].config.Filename = UserFilename
  /\ heap[1].config.UseTimeStampFilename /\ heap[1].config.UsePidFilename
  /\ heap[1].config.Environment = EnvDevelopment
  /\ DOMAIN files
       = {[dir |-> <<"tmp">>, stem |-> "user",
           sfx |-> <<"_", Now, "_pid", Pid>>, ext |-> ".log"]}

\* C17: whatever the configuration, the encoder of the file destination has
\* a level encoding without colour, and the encoder of the console
\* destination has the coloured one only when the format is console and
\* EnableColor is set.
C17_FileNeverColored ==
  \A l \in Handles :
    /\ heap[l].fileEncoder.EncodeLevel # "CapitalColor"
    /\ \A i \in DOMAIN heap[l].consoleEncoder :
         heap[l].consoleEncoder[i].EncodeLevel = "CapitalColor"
         => /\ heap[l].config.Format = FormatConsole
            /\ heap[l].config.EnableColor

\* C17, witness: a logger of the console format with colour and console
\* output has written a record to both destinations, the console's encoder
\* being the coloured one.
C17_Witness ==
  /\ last.op = "Emit"
  /\ Len(console) = 1
  /\ \E l \in Handles :
       /\ heap[l].config.Format = FormatConsole
       /\ heap[l].config.EnableColor
       /\ heap[l].consoleEncoder
            = <<[kind |-> "console", EncodeLevel |-> "CapitalColor"]>>
       /\ heap[l].fileEncoder = [kind |-> "console", EncodeLevel |-> "Capital"]
       /\ Len(Content(files, LogFile(l))) = 1

\* C16: with call-site capture on, the call site of a record emitted
\* through an instance method or a package-level function is the frame of
\* the application code that made the call.
C16_CallerIsApplication ==
  last.op \in {"Emit", "Emitf", "PkgEmit", "PkgEmitf"} /\ last.caller # <<>>
  => last.caller = <<AppStack[Len(AppStack)]>>

\* The goroutines that are inside the registry map, reading and writing.
Readers ==
  {t \in Threads : thr[t].pc \in {"mod_rlocked", "get_rlocked", "sync_rlocked"}}

Writers == {t \in Threads : thr[t].pc \in {"reg_write", "init_write"}}

\* C20: every goroutine reading the registry map holds the read lock and
\* every goroutine writing it holds the write lock, so at most one writer is
\* inside the map and no reader is inside with it; a goroutine inside
\* Module's construction holds the lock in neither way.
C20_LockDiscipline ==
  /\ \A t \in Readers : t \in loggersMu.readers
  /\ \A t \in Writers : loggersMu.writer = t
  /\ Cardinality(Writers) <= 1
  /\ Writers # {} => Readers = {}
  /\ \A t \in Threads :
       thr[t].pc = "mod_build"
       => t \notin loggersMu.readers /\ loggersMu.writer # t

\* C20, witness: after a write to the registry, two goroutines are reading
\* the map together, one in Module and one in SyncAll.
C20_Witness ==
  /\ writes # <<>>
  /\ Cardinality(Readers) = 2
  /\ \E t, u \in Threads :
       thr[t].pc = "mod_rlocked" /\ thr[u].pc = "sync_rlocked"

\* The logger of the last write the goroutines made to the registry under
\* name n.
WritesTo(n) == SelectSeq(writes, LAMBDA w : w.name = n)

LastWrite(n) == WritesTo(n)[Len(WritesTo(n))].logger

\* Whether every goroutine has returned from a call Module(n).
AllReturnedFrom(n) ==
  \A t \in Threads :
    thr[t].pc = "idle" /\ thr[t].op = "Module" /\ thr[t].name = n

C21_RegistryOnlyGrows ==
  [][/\ DOMAIN loggers \subseteq DOMAIN loggers'
     /\ \A n \in DOMAIN loggers' \ DOMAIN loggers :
          \E t \in Threads :
            /\ thr[t].built \in Handles
            /\ loggers'[n] = thr[t].built
            /\ \/ /\ thr[t].pc = "init_write"
                  /\ thr[t].op = "Init"
                  /\ n = "default"
               \/ /\ thr[t].pc = "reg_write"
                  /\ thr[t].op \in {"NewLogger", "Module", "Init"}
                  /\ n = thr[t].name
                  /\ n # "" /\ n # "default"]_vars

\* C21, witness: the registry holds "user" and "default" after two writes
\* to it, and a logger has since been flushed.
C21_Witness ==
  /\ DOMAIN loggers = {"user", "default"}
  /\ Len(writes) = 2
  /\ last.op = "Sync"

\* C22: a NewLogger whose name is "default" or empty leaves the registry
\* unchanged; a step that writes the entry "default" is an Init that
\* constructed its logger, and it stores that logger and makes it the
\* default logger, which no other step changes; so the entry "default",
\* when present, is the default logger.
C22_ReservedDefault ==
  /\ []("default" \in DOMAIN loggers => loggers["default"] = defaultLogger)
  /\ [][/\ (/\ last'.op = "NewLogger"
            /\ last'.cfg[1].Name \in {"", "default"})
           => loggers' = loggers
        /\ (/\ "default" \in DOMAIN loggers'
            /\ "default" \in DOMAIN loggers
               => loggers'["default"] # loggers["default"])
           => /\ last'.op = "Init" /\ last'.built
              /\ Len(heap') = Len(heap) + 1
              /\ loggers'["default"] = Len(heap')
        /\ (last'.op = "Init" /\ last'.built)
           => /\ defaultLogger' = Len(heap')
              /\ loggers'["default"] = Len(heap')
        /\ defaultLogger' # defaultLogger
           => last'.op = "Init" /\ last'.built]_vars

\* C22, witness: after a second successful Init, a NewLogger named
\* "default" has constructed a third logger and the entry "default" is
\* still the second.
C22_Witness ==
  /\ last.op = "NewLogger" /\ last.built
  /\ last.cfg = <<NamedDefaultConfig>>
  /\ Len(heap) = 3
  /\ heap[3].name = "default"
  /\ loggers["default"] = 2
  /\ defaultLogger = 2

\* C25: NewLogger leaves the rotation policy object that the caller's
\* configuration points to as it was: the same MaxSize, MaxAge, MaxBackups
\* and Compress after the call as before it.
C25_CallerRotationUntouched ==
  [][\A c \in ConfigInputs, mk \in BOOLEAN :
       (last'.op = "NewLogger" /\ c.FileRotation # Nil
        /\ NewLogger(c, mk, Now))
       => rotMem'[c.FileRotation] = rotMem[c.FileRotation]]_vars

\* C24: when name is in the registry, Module(name, cfg) returns the
\* registered logger and changes nothing: no logger is constructed, no
\* directory or file is made or written, and the levels, the registry and
\* the rotation policies stay as they are, whatever cfg holds.
C24_ModuleIgnoresConfig ==
  [][\A n \in Names, cs \in {<<>>, <<UserConfig>>}, mk \in BOOLEAN :
       (last'.op = "Module" /\ n \in DOMAIN loggers /\ Module(n, cs, mk, Now))
       => /\ last'.ret = loggers[n]
          /\ ~last'.built /\ ~last'.err
          /\ heap' = heap
          /\ levels' = levels
          /\ loggers' = loggers
          /\ dirs' = dirs
          /\ files' = files
          /\ console' = console
          /\ rotMem' = rotMem
          /\ defaultLogger' = defaultLogger]_vars

\* C24, witness: "user" was registered by Module("user") at the default
\* level, and Module("user", cfg) with a debug-level configuration for
\* another file has returned that logger, still at info and alone.
C24_Witness ==
  /\ last.op = "Module" /\ last.name = "user" /\ last.cfg = <<UserConfig>>
  /\ ~last.built
  /\ "user" \in DOMAIN loggers
  /\ last.ret = loggers["user"]
  /\ Len(heap) = 1
  /\ heap[1].config.Filename = ModuleFile("user")
  /\ EffLevel(1) = ZapInfoLevel
  /\ <<"tmp">> \notin dirs

\* Goroutine t holds the registry lock, as a reader or as the writer.
Holds(t) == t \in loggersMu.readers \/ loggersMu.writer = t

\* Goroutine t is about to request the registry lock.
Requests(t) == thr[t].pc \in {"called", "reg_lock", "init_lock"}

\* C26: no goroutine requests the registry lock while it holds it, a
\* goroutine that is in no call holds no lock, and under fair scheduling
\* every call of Init, NewLogger, Module, GetLogger and SyncAll that has
\* started eventually returns.
C26_EveryCallReturns ==
  /\ [](\A t \in Threads :
          /\ Requests(t) => ~Holds(t)
          /\ thr[t].pc = "idle" => ~Holds(t))
  /\ \A t \in Threads : (thr[t].pc # "idle") ~> (thr[t].pc = "idle")

\* C26 witness: a goroutine has called a function that starts with RLock()
\* and waits while another goroutine holds the write lock; the registry and
\* the default logger are set, and a Module call has failed and logged
\* through the default logger.
C26_Witness ==
  /\ \E t \in Threads, u \in Threads :
       /\ t # u
       /\ thr[t].pc = "called"
       /\ loggersMu.writer = u
  /\ DOMAIN loggers # {}
  /\ defaultLogger # Nil
  /\ Written > 0

\* C23: once every goroutine has returned from an Init that constructed its
\* logger, the logger registered under "default" is the default logger.
C23_DefaultConsistent ==
  (\A t \in Threads :
     thr[t].pc = "idle" /\ thr[t].op = "Init" /\ thr[t].built # Nil)
  => /\ "default" \in DOMAIN loggers
     /\ loggers["default"] = defaultLogger

====
